---- MODULE Spec2Model ----
(***************************************************************************)
(* Model of the snowflake codec of TheMultii/snowflake-util:               *)
(*   src/snowflake/config.py     SnowflakeConfig                           *)
(*   src/snowflake/snowflake.py  Snowflake                                 *)
(*                                                                         *)
(* Representation.  A Python str is a sequence of one-character strings.   *)
(* A Python int that may exceed 31 bits (timestamps in milliseconds,       *)
(* snowflakes) is a "Dec": its decimal digits, most significant first,     *)
(* without leading zeros (zero is <<0>>); a possibly negative one is a     *)
(* record [neg, mag].  Field values and widths are ordinary integers.      *)
(* An Optional[int] is <<>> (None) or <<n>>.  A datetime is modelled by    *)
(* the integer the code derives from it, round(date.timestamp() * 1000),   *)
(* and a returned datetime by the number of seconds handed to              *)
(* datetime.fromtimestamp.                                                 *)
(***************************************************************************)
EXTENDS Integers, Sequences, FiniteSets, TLC

VARIABLES config, made, gen, par, prev, call

vars == <<config, made, gen, par, prev, call>>

(***************************************************************************)
(* Bounds of the model.                                                    *)
(***************************************************************************)
\* field values and timestamp offsets are drawn from 0 .. MaxLow besides the
\* values around the end of their range
MaxLow == 0
\* decimal strings handed to the parsers have 17-LenSlack .. 19+LenSlack digits
LenSlack == 1

None == <<>>
Some(x) == <<x>>

(***************************************************************************)
(* Arithmetic on Dec values (Python's unbounded int).  Big values are      *)
(* taken apart into 16-bit limbs so that no recursion is deeper than the   *)
(* number of decimal digits.                                               *)
(***************************************************************************)
Limb == 2 ^ 16

Min(S) == CHOOSE x \in S : \A y \in S : x <= y

Reverse(s) == [i \in 1..Len(s) |-> s[Len(s) + 1 - i]]

\* the digits without leading zeros
DecNorm(s) ==
    LET nz == {i \in 1..Len(s) : s[i] # 0}
    IN  IF nz = {} THEN <<0>> ELSE SubSeq(s, Min(nz), Len(s))

Zeros(n) == [i \in 1..n |-> 0]

DecPad(s, n) == Zeros(n - Len(s)) \o s

RECURSIVE DecOf(_)
\* the Dec of a small natural number
DecOf(n) == IF n < 10 THEN <<n>> ELSE DecOf(n \div 10) \o <<n % 10>>

RECURSIVE NatFrom(_, _)
NatFrom(s, i) == IF i = 0 THEN 0 ELSE 10 * NatFrom(s, i - 1) + s[i]

\* the small natural number of a Dec of at most 9 digits
NatOf(s) == NatFrom(s, Len(s))

RECURSIVE AddFrom(_, _, _, _)
\* least significant digit first
AddFrom(a, b, i, carry) ==
    IF i = 0 THEN (IF carry = 0 THEN <<>> ELSE <<carry>>)
    ELSE LET v == a[i] + b[i] + carry
         IN  <<v % 10>> \o AddFrom(a, b, i - 1, v \div 10)

\* a + b
DecAdd(a, b) ==
    LET n == IF Len(a) > Len(b) THEN Len(a) ELSE Len(b)
    IN  DecNorm(Reverse(AddFrom(DecPad(a, n), DecPad(b, n), n, 0)))

\* a < b
DecLess(a, b) ==
    IF Len(a) # Len(b) THEN Len(a) < Len(b)
    ELSE \E i \in 1..Len(a) : a[i] < b[i] /\ \A j \in 1..(i - 1) : a[j] = b[j]

RECURSIVE SubFrom(_, _, _, _)
\* least significant digit first
SubFrom(a, b, i, borrow) ==
    IF i = 0 THEN <<>>
    ELSE LET v == a[i] - b[i] - borrow
         IN  <<v % 10>> \o SubFrom(a, b, i - 1, IF v < 0 THEN 1 ELSE 0)

\* a - b, for a >= b
DecSub(a, b) == DecNorm(Reverse(SubFrom(a, DecPad(b, Len(a)), Len(a), 0)))

RECURSIVE MulAddFrom(_, _, _, _)
\* least significant digit first
MulAddFrom(s, m, i, carry) ==
    IF i = 0 THEN (IF carry = 0 THEN <<>> ELSE Reverse(DecOf(carry)))
    ELSE LET v == s[i] * m + carry
         IN  <<v % 10>> \o MulAddFrom(s, m, i - 1, v \div 10)

\* s * m + a, for small m and a
DecMulAdd(s, m, a) == DecNorm(Reverse(MulAddFrom(s, m, Len(s), a)))

RECURSIVE DivFrom(_, _, _, _)
\* long division by a small m: the quotient's digits, then the remainder
DivFrom(s, m, i, rem) ==
    IF i > Len(s) THEN <<rem>>
    ELSE LET cur == rem * 10 + s[i]
         IN  <<cur \div m>> \o DivFrom(s, m, i + 1, cur % m)

\* s // m and s % m, for small m
DecDivMod(s, m) ==
    LET d == DivFrom(s, m, 1, 0)
    IN  [q |-> DecNorm(SubSeq(d, 1, Len(s))), r |-> d[Len(s) + 1]]

SInt(neg, mag) == [neg |-> neg, mag |-> mag]

\* a - b on signed values, for b >= 0
SIntMinus(a, b) ==
    IF a.neg THEN SInt(TRUE, DecAdd(a.mag, b))
    ELSE IF DecLess(a.mag, b) THEN SInt(TRUE, DecSub(b, a.mag))
    ELSE SInt(FALSE, DecSub(a.mag, b))

IsNegative(a) == a.neg /\ a.mag # <<0>>

(***************************************************************************)
(* Python built-ins used by the codec.                                     *)
(***************************************************************************)
BitChar(b) == IF b = 0 THEN "0" ELSE "1"

BitOf(c) == IF c = "1" THEN 1 ELSE 0

DigitChars == <<"0", "1", "2", "3", "4", "5", "6", "7", "8", "9">>

IsDigitChar(c) == \E d \in 1..10 : DigitChars[d] = c

DigitOf(c) == (CHOOSE d \in 1..10 : DigitChars[d] = c) - 1

ZeroChars(n) == [i \in 1..n |-> "0"]

\* s.zfill(width): pads on the left, never cuts; a string without a leading
\* sign is only padded
\* a zfill that also cuts the string down to its last width characters
ZFillTruncating(s, width) ==
    IF Len(s) >= width THEN SubSeq(s, Len(s) - width + 1, Len(s))
    ELSE ZeroChars(width - Len(s)) \o s

ZFill(s, width) == ZeroChars(width - Len(s)) \o s

\* s.lstrip("0") or "0"
StripZeroChars(s) ==
    LET nz == {i \in 1..Len(s) : s[i] # "0"}
    IN  IF nz = {} THEN <<"0">> ELSE SubSeq(s, Min(nz), Len(s))

RECURSIVE BinNat(_)
BinNat(n) == IF n < 2 THEN <<BitChar(n)>> ELSE BinNat(n \div 2) \o <<BitChar(n % 2)>>

\* bin(n)[2:] of a field value: bin(-5) is "-0b101", so the slice keeps "b101"
Bin(n) == IF n < 0 THEN <<"b">> \o BinNat(-n) ELSE BinNat(n)

RECURSIVE LimbBinary(_)
\* the binary digits of a Dec, limb by limb, with leading zeros
LimbBinary(s) ==
    LET d == DecDivMod(s, Limb)
        low == ZFill(BinNat(d.r), 16)
    IN  IF d.q = <<0>> THEN low ELSE LimbBinary(d.q) \o low

\* bin(n)[2:] of a non-negative Dec
BinDec(s) == StripZeroChars(LimbBinary(s))

IsBinary(s) == Len(s) > 0 /\ \A i \in 1..Len(s) : s[i] \in {"0", "1"}

RECURSIVE Int2Nat(_)
\* int(s, 2) of at most 30 binary digits
Int2Nat(s) ==
    IF Len(s) = 0 THEN 0
    ELSE IF Len(s) = 1 THEN BitOf(s[1])
    ELSE LET h == Len(s) \div 2
         IN  Int2Nat(SubSeq(s, 1, h)) * 2 ^ (Len(s) - h)
                 + Int2Nat(SubSeq(s, h + 1, Len(s)))

RECURSIVE Int2(_)
\* int(s, 2) of a string of binary digits, as a Dec
Int2(s) ==
    IF Len(s) <= 16 THEN DecOf(Int2Nat(s))
    ELSE DecMulAdd(Int2(SubSeq(s, 1, Len(s) - 16)), Limb,
                   Int2Nat(SubSeq(s, Len(s) - 15, Len(s))))

\* str(n) of a non-negative Dec
Str(s) == [i \in 1..Len(s) |-> DigitChars[s[i] + 1]]

IsDecimal(s) == Len(s) > 0 /\ \A i \in 1..Len(s) : IsDigitChar(s[i])

\* int(s) of a string of decimal digits
Int10(s) == DecNorm([i \in 1..Len(s) |-> DigitOf(s[i])])

\* s[a:b] with 0 <= a (Python slice: clipped to the string)
Slice(s, a, b) ==
    LET hi == IF b > Len(s) THEN Len(s) ELSE b
    IN  IF a >= hi THEN <<>> ELSE SubSeq(s, a + 1, hi)

\* s[a:]
SliceFrom(s, a) == Slice(s, a, Len(s))

\* round(n / 1000): true division, then round-half-to-even
RoundDiv1000(n) ==
    LET p == DecPad(n, 4)
        q == DecNorm(SubSeq(p, 1, Len(p) - 3))
        r == NatOf(SubSeq(p, Len(p) - 2, Len(p)))
        up == r > 500 \/ (r = 500 /\ q[Len(q)] % 2 = 1)
    IN  IF up THEN DecAdd(q, <<1>>) ELSE q

\* n < 10 ** w for a field value n (|n| < 2^31 < 10^10) and a width w >= 0
LessPow10(n, w) == IF w >= 10 THEN TRUE ELSE n < 10 ^ w

(***************************************************************************)
(* enums.py (Epoch) is not among the sources; the three values are the     *)
(* ones the specification gives, milliseconds since the Unix epoch.        *)
(***************************************************************************)
EpochValue(name) ==
    CASE name = "discord"   -> <<1,4,2,0,0,7,0,4,0,0,0,0,0>>
      [] name = "twitter"   -> <<1,2,8,8,8,3,4,9,7,4,6,5,7>>
      [] name = "instagram" -> <<1,3,1,4,2,2,0,0,2,1,7,2,1>>

\* an epoch argument: a member of Epoch, or a raw int
EpochEnum(name) == [enum |-> name, raw |-> SInt(FALSE, <<0>>)]
EpochInt(neg, mag) == [enum |-> "", raw |-> SInt(neg, mag)]

\* isinstance(epoch, Epoch)
IsEpochEnum(e) == e.enum # ""

\* len(str(epoch)) of a raw int
StrLenInt(a) == Len(a.mag) + (IF IsNegative(a) THEN 1 ELSE 0)

(***************************************************************************)
(* config.py: SnowflakeConfig                                              *)
(***************************************************************************)
Cfg(epoch, lb, tl, p1, p2, sl) ==
    [epoch |-> epoch, leading_bit |-> lb, timestamp_length |-> tl,
     param1_length |-> p1, param2_length |-> p2, sequence_length |-> sl]

NoCfg == Cfg(EpochInt(FALSE, <<0>>), FALSE, 0, 0, None, 0)

\* a width sum that forgets the leading bit
WidthSumNoLead(lb, tl, p1, p2, sl) ==
    tl + p1 + (IF p2 = None THEN 0 ELSE p2[1]) + sl

\* (1 if leading_bit else 0) + timestamp_length + param1_length
\*   + (param2_length or 0) + sequence_length
WidthSum(lb, tl, p1, p2, sl) ==
    (IF lb THEN 1 ELSE 0) + tl + p1 + (IF p2 = None THEN 0 ELSE p2[1]) + sl

\* SnowflakeConfig.__init__
SnowflakeConfigInit(epoch, lb, tl, p1, p2, sl) ==
    IF ~(IsEpochEnum(epoch)
         \/ (StrLenInt(epoch.raw) <= 13 /\ ~IsNegative(epoch.raw)))
    THEN [ok |-> FALSE, exc |-> "ValueError",
          msg |-> "Must be a snowlake.Epoch or a valid Unix timestamp in milliseconds with maximum length of 13 digits.",
          cfg |-> NoCfg]
    ELSE IF WidthSum(lb, tl, p1, p2, sl) # 64
    THEN [ok |-> FALSE, exc |-> "AssertionError",
          msg |-> "Sum of leading_bit, timestamp_length, param1_length, param2_length, sequence_length must be exactly 64.",
          cfg |-> NoCfg]
    ELSE [ok |-> TRUE, exc |-> "", msg |-> "", cfg |-> Cfg(epoch, lb, tl, p1, p2, sl)]

(***************************************************************************)
(* snowflake.py: Snowflake                                                 *)
(***************************************************************************)
\* the value of self.__config: the attribute may be missing (constructed with
\* config=None), hold None (set_config(None)) or hold a SnowflakeConfig
Unset == [state |-> "unset", cfg |-> NoCfg]
Cleared == [state |-> "none", cfg |-> NoCfg]
Active(cfg) == [state |-> "set", cfg |-> cfg]

\* Snowflake.__default_config
DefaultConfig == Cfg(EpochEnum("discord"), FALSE, 42, 5, Some(5), 12)

\* self.__config.epoch.value if isinstance(self.__config.epoch, Epoch)
\*   else self.__config.epoch
EpochOf(cfg) ==
    IF IsEpochEnum(cfg.epoch) THEN EpochValue(cfg.epoch.enum) ELSE cfg.epoch.raw.mag

GenOk(s) == [ok |-> TRUE, exc |-> "", msg |-> "", value |-> s]
GenFail(exc, msg) == [ok |-> FALSE, exc |-> exc, msg |-> msg, value |-> <<>>]

\* str(int(binary_string, 2))
StrOfBinary(b) ==
    IF IsBinary(b) THEN GenOk(Str(Int2(b)))
    ELSE GenFail("ValueError", "invalid literal for int() with base 2")

\* a binary string with the timestamp after the fields
BinaryStringFieldsFirst(lb, bdt, bp1, bp2, bseq) ==
    (IF lb THEN <<"0">> ELSE <<>>) \o bp1
        \o (IF bp2 = None THEN <<"N", "o", "n", "e">> ELSE bp2[1]) \o bseq \o bdt

\* the f-string of generate_snowflake; a None param2 is rendered as "None"
BinaryString(lb, bdt, bp1, bp2, bseq) ==
    (IF lb THEN <<"0">> ELSE <<>>) \o bdt \o bp1
        \o (IF bp2 = None THEN <<"N", "o", "n", "e">> ELSE bp2[1]) \o bseq

\* assert 0 <= v < 10 ** width
InFieldRange(v, width) == 0 <= v /\ LessPow10(v, width)

\* Snowflake.generate_snowflake(param1, sequence, date, param2=...)
GenerateSnowflake(c, param1, sequence, date, param2) ==
    IF c.state = "unset"
    THEN GenFail("AttributeError", "'Snowflake' object has no attribute '_Snowflake__config'")
    ELSE IF c.state = "none"
    THEN GenFail("TypeError", "SnowflakeConfig must be provided.")
    ELSE LET cfg == c.cfg
             dt == SIntMinus(date, EpochOf(cfg))
         IN
    IF param2 = None /\ cfg.param2_length = None
    THEN GenFail("TypeError", "'>' not supported between instances of 'NoneType' and 'int'")
    ELSE IF param2 = None /\ cfg.param2_length[1] > 0
    THEN GenFail("TypeError", "Required param2 is not provided.")
    ELSE IF ~InFieldRange(param1, cfg.param1_length)
    THEN GenFail("AssertionError", "Param1 must be between 0 and (10**(config.param1_length) - 1)")
    ELSE IF ~InFieldRange(sequence, cfg.sequence_length)
    THEN GenFail("AssertionError", "Sequence must be between 0 and (10**(config.sequence_length) - 1)")
    ELSE IF IsNegative(dt)
    THEN GenFail("ValueError", "Provided date is before the epoch.")
    ELSE IF param2 # None /\ cfg.param2_length = None
    THEN GenFail("TypeError", "'NoneType' object cannot be interpreted as an integer")
    ELSE LET b == BinaryString(cfg.leading_bit,
                     ZFill(BinDec(dt.mag), cfg.timestamp_length),
                     ZFill(Bin(param1), cfg.param1_length),
                     IF param2 = None THEN None
                     ELSE Some(ZFill(Bin(param2[1]), cfg.param2_length[1])),
                     ZFill(Bin(sequence), cfg.sequence_length))
         IN  IF Len(b) # 64
             THEN GenFail("AssertionError", "Binary string length is incorrect.")
             ELSE StrOfBinary(b)

\* the body shared by the three fixed-format generators, after their
\* argument assertions: no length assertion is made
GenerateFixed(lb, date, epochName, tl, fields, provider) ==
    LET dt == SIntMinus(date, EpochValue(epochName))
    IN  IF IsNegative(dt)
        THEN GenFail("ValueError", provider)
        ELSE StrOfBinary((IF lb THEN <<"0">> ELSE <<>>)
                         \o ZFill(BinDec(dt.mag), tl) \o fields)

\* Snowflake.generate_discord_snowflake(worker, process, sequence, date)
GenerateDiscordSnowflake(worker, process, sequence, date) ==
    IF ~(0 <= worker /\ worker < 32)
    THEN GenFail("AssertionError", "Worker must be between 0 and 31.")
    ELSE IF ~(0 <= process /\ process < 32)
    THEN GenFail("AssertionError", "Process must be between 0 and 31.")
    ELSE IF ~(0 <= sequence /\ sequence < 4096)
    THEN GenFail("AssertionError", "Sequence must be between 0 and 4095.")
    ELSE GenerateFixed(FALSE, date, "discord", 42,
             ZFill(Bin(worker), 5) \o ZFill(Bin(process), 5) \o ZFill(Bin(sequence), 12),
             "Provided date is before the Discord epoch.")

\* Snowflake.generate_twitter_snowflake(machine, sequence, date)
GenerateTwitterSnowflake(machine, sequence, date) ==
    IF ~(0 <= machine /\ machine < 1024)
    THEN GenFail("AssertionError", "Worker must be between 0 and 1023.")
    ELSE IF ~(0 <= sequence /\ sequence < 4096)
    THEN GenFail("AssertionError", "Sequence must be between 0 and 4095.")
    ELSE GenerateFixed(TRUE, date, "twitter", 41,
             ZFill(Bin(machine), 10) \o ZFill(Bin(sequence), 12),
             "Provided date is before the Twitter epoch.")

\* Snowflake.generate_instagram_snowflake(shard, sequence, date)
GenerateInstagramSnowflake(shard, sequence, date) ==
    IF ~(0 <= shard /\ shard < 8192)
    THEN GenFail("AssertionError", "Shard must be between 0 and 8191.")
    ELSE IF ~(0 <= sequence /\ sequence < 1024)
    THEN GenFail("AssertionError", "Sequence must be between 0 and 1023.")
    ELSE GenerateFixed(FALSE, date, "instagram", 41,
             ZFill(Bin(shard), 13) \o ZFill(Bin(sequence), 10),
             "Provided date is before the Instagram epoch.")

ParseFail(exc, msg) ==
    [ok |-> FALSE, exc |-> exc, msg |-> msg, arity |-> 0,
     ts |-> <<0>>, param1 |-> 0, param2 |-> None, sequence |-> 0]

\* (date, param1, sequence) or (date, param1, param2, sequence)
ParseOk(ts, param1, param2, sequence) ==
    [ok |-> TRUE, exc |-> "", msg |-> "", arity |-> IF param2 = None THEN 3 ELSE 4,
     ts |-> ts, param1 |-> param1, param2 |-> param2, sequence |-> sequence]

\* a length guard that turns 19-digit strings away
LengthOkBelow19(snowflake) == 17 <= Len(snowflake) /\ Len(snowflake) < 19

\* assert 17 <= len(snowflake) <= 19
LengthOk(snowflake) == 17 <= Len(snowflake) /\ Len(snowflake) <= 19

\* bin(int(snowflake))[2:].zfill(64)
BinarySnowflake(snowflake) == ZFill(BinDec(Int10(snowflake)), 64)

\* round((int(binary_timestamp, 2) + epoch) / 1000)
TimestampOf(bts, epoch) == RoundDiv1000(DecAdd(Int2(bts), epoch))

\* the int(..., 2) conversions and the returned tuple; int("", 2) raises
Decode(bts, bp1, bp2, bseq, epoch) ==
    IF bts = <<>> \/ bp1 = <<>> \/ (bp2 # None /\ bp2[1] = <<>>) \/ bseq = <<>>
    THEN ParseFail("ValueError", "invalid literal for int() with base 2: ''")
    ELSE ParseOk(TimestampOf(bts, epoch), Int2Nat(bp1),
                 IF bp2 = None THEN None ELSE Some(Int2Nat(bp2[1])),
                 Int2Nat(bseq))

\* the slices parse_snowflake takes of the 64 binary digits
GenericSlices(cfg, b) ==
    LET tl == cfg.timestamp_length
        p1 == cfg.param1_length
        p2 == cfg.param2_length[1]
    IN  [ts |-> Slice(b, 0, tl),
         param1 |-> Slice(b, tl, tl + p1),
         param2 |-> IF p2 > 0 THEN Some(Slice(b, tl + p1, tl + p1 + p2)) ELSE None,
         sequence |-> SliceFrom(b, tl + p1 + p2)]

\* Snowflake.parse_snowflake(snowflake), snowflake a string of decimal digits
ParseSnowflake(c, snowflake) ==
    IF c.state = "unset"
    THEN ParseFail("AttributeError", "'Snowflake' object has no attribute '_Snowflake__config'")
    ELSE IF c.state = "none"
    THEN ParseFail("TypeError", "SnowflakeConfig must be provided.")
    ELSE IF ~LengthOk(snowflake)
    THEN ParseFail("AssertionError", "Snowflake must be a valid snowflake within 17-19 digits.")
    ELSE IF c.cfg.param2_length = None
    THEN ParseFail("TypeError", "unsupported operand type(s) for +: 'int' and 'NoneType'")
    ELSE LET sl == GenericSlices(c.cfg, BinarySnowflake(snowflake))
         IN  Decode(sl.ts, sl.param1, sl.param2, sl.sequence, EpochOf(c.cfg))

\* Snowflake.parse_discord_snowflake(snowflake)
ParseDiscordSnowflake(snowflake) ==
    IF ~LengthOk(snowflake)
    THEN ParseFail("AssertionError", "Snowflake must be a valid Discord snowflake within 17-19 digits.")
    ELSE LET b == BinarySnowflake(snowflake)
         IN  Decode(Slice(b, 0, 42), Slice(b, 42, 47), Some(Slice(b, 47, 52)),
                    SliceFrom(b, 52), EpochValue("discord"))

\* Snowflake.parse_twitter_snowflake(snowflake)
ParseTwitterSnowflake(snowflake) ==
    IF ~LengthOk(snowflake)
    THEN ParseFail("AssertionError", "Snowflake must be a valid Twitter snowflake within 17-19 digits.")
    ELSE LET b == BinarySnowflake(snowflake)
         IN  Decode(Slice(b, 1, 42), Slice(b, 42, 52), None,
                    SliceFrom(b, 52), EpochValue("twitter"))

\* Snowflake.parse_instagram_snowflake(snowflake)
ParseInstagramSnowflake(snowflake) ==
    IF ~LengthOk(snowflake)
    THEN ParseFail("AssertionError", "Snowflake must be a valid Instagram snowflake within 17-19 digits.")
    ELSE LET b == BinarySnowflake(snowflake)
         IN  Decode(Slice(b, 0, 41), Slice(b, 41, 54), None,
                    SliceFrom(b, 54), EpochValue("instagram"))

(***************************************************************************)
(* The inputs the calls are made with.                                     *)
(***************************************************************************)
OneChars(n) == [i \in 1..n |-> "1"]

NineChars(n) == [i \in 1..n |-> "9"]

\* -1, the low values, the largest value of w bits and the first beyond it
FieldValues(w) == {-1} \cup (0..MaxLow) \cup {2 ^ w - 1, 2 ^ w}

\* offsets from the epoch, in milliseconds: the low values, 2^(tl-1), the
\* largest value of tl bits and the first beyond it
DeltaValues(tl) ==
    {DecOf(d) : d \in 0..MaxLow}
        \cup {Int2(<<"1">> \o ZeroChars(tl - 1)), Int2(OneChars(tl)),
              Int2(<<"1">> \o ZeroChars(tl))}

\* round(date.timestamp() * 1000) of the dates: one millisecond before the
\* epoch, and the epoch plus each offset
DateValues(epoch, tl) ==
    {SIntMinus(SInt(FALSE, epoch), <<1>>)}
        \cup {SInt(FALSE, DecAdd(epoch, d)) : d \in DeltaValues(tl)}

\* strings of decimal digits of 17-LenSlack .. 19+LenSlack digits
SampleStrings ==
    UNION {{<<"1">> \o ZeroChars(n - 1), NineChars(n), ZeroChars(n - 1) \o <<"7">>}
           : n \in (17 - LenSlack)..(19 + LenSlack)}

EpochArgs ==
    {EpochEnum("discord"), EpochInt(FALSE, <<0>>), EpochInt(TRUE, <<1>>),
     EpochInt(FALSE, <<1>> \o Zeros(13))}

TimestampLengths == {41, 42}
Param1Lengths == {0, 5, 10}
Param2Lengths == {None, Some(0), Some(5), Some(10)}
SequenceLengths == {12}

\* the layout the generic calls take their argument ranges from
Layout == IF config.state = "set" THEN config.cfg ELSE DefaultConfig

Param2Width(cfg) == IF cfg.param2_length = None THEN 0 ELSE cfg.param2_length[1]

(***************************************************************************)
(* The state: the codec's configuration, and a log of the call being       *)
(* observed: a construction (made), a generate call (gen) and a parse call *)
(* (par), each with its arguments and outcome.  A parse call that follows  *)
(* a generate call is given the snowflake that call returned.  prev is the *)
(* generate call before gen, kept where two snowflakes are compared.       *)
(***************************************************************************)
NoMade == [op |-> "none", out |-> [ok |-> FALSE, exc |-> "", msg |-> "", cfg |-> NoCfg],
           epoch |-> EpochInt(FALSE, <<0>>), leading_bit |-> FALSE, timestamp_length |-> 0,
           param1_length |-> 0, param2_length |-> None, sequence_length |-> 0]

NoGen == [op |-> "none", param1 |-> 0, param2 |-> None, sequence |-> 0,
          date |-> SInt(FALSE, <<0>>), out |-> GenFail("", "")]

NoPar == [op |-> "none", snowflake |-> <<>>, fromGen |-> FALSE, out |-> ParseFail("", "")]

\* no generate_snowflake or parse_snowflake call is in progress
NoCall == [op |-> "none"]

\* the log is empty: the outcome of the last call has been taken
Idle == made.op = "none" /\ gen.op = "none" /\ par.op = "none" /\ prev.op = "none"

\* Snowflake() takes the default configuration; Snowflake(None) leaves the
\* attribute unset
Init ==
    /\ config \in {Active(DefaultConfig), Unset}
    /\ made = NoMade
    /\ gen = NoGen
    /\ par = NoPar
    /\ prev = NoGen
    /\ call = NoCall

\* SnowflakeConfig(epoch, leading_bit, timestamp_length, ...)
Construct ==
    /\ Idle
    /\ \E epoch \in EpochArgs, lb \in BOOLEAN, tl \in TimestampLengths,
          p1 \in Param1Lengths, p2 \in Param2Lengths, sl \in SequenceLengths :
           made' = [op |-> "SnowflakeConfig",
                    out |-> SnowflakeConfigInit(epoch, lb, tl, p1, p2, sl),
                    epoch |-> epoch, leading_bit |-> lb, timestamp_length |-> tl,
                    param1_length |-> p1, param2_length |-> p2, sequence_length |-> sl]
    /\ UNCHANGED <<config, gen, par, prev, call>>

\* set_config(config) with the configuration just constructed
SetConfig ==
    /\ made.op = "SnowflakeConfig"
    /\ made.out.ok
    /\ config' = Active(made.out.cfg)
    /\ made' = NoMade
    /\ UNCHANGED <<gen, par, prev, call>>

\* set_config(None)
SetConfigNone ==
    /\ Idle
    /\ config' = Cleared
    /\ UNCHANGED <<made, gen, par, prev, call>>

Generated(op, param1, param2, sequence, date, out) ==
    [op |-> op, param1 |-> param1, param2 |-> param2, sequence |-> sequence,
     date |-> date, out |-> out]

GenerateStep ==
    \E param1 \in FieldValues(Layout.param1_length),
       sequence \in FieldValues(Layout.sequence_length),
       date \in DateValues(EpochOf(Layout), Layout.timestamp_length),
       param2 \in {None} \cup {Some(v) : v \in FieldValues(Param2Width(Layout))} :
        gen' = Generated("generate_snowflake", param1, param2, sequence, date,
                         GenerateSnowflake(config, param1, sequence, date, param2))

GenerateDiscordStep ==
    \E worker \in FieldValues(5), process \in FieldValues(5),
       sequence \in FieldValues(12), date \in DateValues(EpochValue("discord"), 42) :
        gen' = Generated("generate_discord_snowflake", worker, Some(process), sequence,
                         date, GenerateDiscordSnowflake(worker, process, sequence, date))

GenerateTwitterStep ==
    \E machine \in FieldValues(10), sequence \in FieldValues(12),
       date \in DateValues(EpochValue("twitter"), 41) :
        gen' = Generated("generate_twitter_snowflake", machine, None, sequence,
                         date, GenerateTwitterSnowflake(machine, sequence, date))

GenerateInstagramStep ==
    \E shard \in FieldValues(13), sequence \in FieldValues(10),
       date \in DateValues(EpochValue("instagram"), 41) :
        gen' = Generated("generate_instagram_snowflake", shard, None, sequence,
                         date, GenerateInstagramSnowflake(shard, sequence, date))

GenerateCall ==
    Idle /\ GenerateStep /\ UNCHANGED <<config, made, par, prev, call>>

GenerateDiscordCall ==
    Idle /\ GenerateDiscordStep /\ UNCHANGED <<config, made, par, prev, call>>

GenerateTwitterCall ==
    Idle /\ GenerateTwitterStep /\ UNCHANGED <<config, made, par, prev, call>>

GenerateInstagramCall ==
    Idle /\ GenerateInstagramStep /\ UNCHANGED <<config, made, par, prev, call>>

\* the strings a parser is called with: a sample, or the snowflake the
\* generate call just returned
ParseInputs ==
    IF gen.op = "none" THEN SampleStrings
    ELSE IF gen.out.ok THEN {gen.out.value} ELSE {}

CanParse == made.op = "none" /\ par.op = "none" /\ prev.op = "none"

Parsed(op, s, out) ==
    [op |-> op, snowflake |-> s, fromGen |-> gen.op # "none", out |-> out]

ParseCall ==
    /\ CanParse
    /\ \E s \in ParseInputs :
           par' = Parsed("parse_snowflake", s, ParseSnowflake(config, s))
    /\ UNCHANGED <<config, made, gen, prev, call>>

ParseDiscordCall ==
    /\ CanParse
    /\ \E s \in ParseInputs :
           par' = Parsed("parse_discord_snowflake", s, ParseDiscordSnowflake(s))
    /\ UNCHANGED <<config, made, gen, prev, call>>

ParseTwitterCall ==
    /\ CanParse
    /\ \E s \in ParseInputs :
           par' = Parsed("parse_twitter_snowflake", s, ParseTwitterSnowflake(s))
    /\ UNCHANGED <<config, made, gen, prev, call>>

ParseInstagramCall ==
    /\ CanParse
    /\ \E s \in ParseInputs :
           par' = Parsed("parse_instagram_snowflake", s, ParseInstagramSnowflake(s))
    /\ UNCHANGED <<config, made, gen, prev, call>>

\* the caller takes the outcome: the log is emptied
Forget ==
    /\ ~Idle
    /\ made' = NoMade
    /\ gen' = NoGen
    /\ par' = NoPar
    /\ prev' = NoGen
    /\ UNCHANGED <<config, call>>

Next ==
    \/ Construct
    \/ SetConfig
    \/ SetConfigNone
    \/ GenerateCall
    \/ GenerateDiscordCall
    \/ GenerateTwitterCall
    \/ GenerateInstagramCall
    \/ ParseCall
    \/ ParseDiscordCall
    \/ ParseTwitterCall
    \/ ParseInstagramCall
    \/ Forget

Spec == Init /\ [][Next]_vars

(***************************************************************************)
(* Two snowflakes of one codec: a generate call that returned a snowflake  *)
(* is followed by a second call of the same method, under a configuration  *)
(* that stays as the codec was constructed with, Snowflake(config).        *)
(***************************************************************************)
OrderConfigs ==
    {DefaultConfig, Cfg(EpochInt(FALSE, <<0>>), TRUE, 41, 5, Some(5), 12)}

InitOrder ==
    /\ config \in {Active(c) : c \in OrderConfigs}
    /\ made = NoMade
    /\ gen = NoGen
    /\ par = NoPar
    /\ prev = NoGen
    /\ call = NoCall

Again(op) ==
    /\ made.op = "none" /\ par.op = "none" /\ prev.op = "none"
    /\ gen.op = op /\ gen.out.ok
    /\ prev' = gen
    /\ UNCHANGED <<config, made, par, call>>

GenerateAgain == Again("generate_snowflake") /\ GenerateStep

GenerateDiscordAgain == Again("generate_discord_snowflake") /\ GenerateDiscordStep

GenerateTwitterAgain == Again("generate_twitter_snowflake") /\ GenerateTwitterStep

GenerateInstagramAgain == Again("generate_instagram_snowflake") /\ GenerateInstagramStep

NextOrder ==
    \/ GenerateCall
    \/ GenerateDiscordCall
    \/ GenerateTwitterCall
    \/ GenerateInstagramCall
    \/ GenerateAgain
    \/ GenerateDiscordAgain
    \/ GenerateTwitterAgain
    \/ GenerateInstagramAgain
    \/ Forget

SpecOrder == InitOrder /\ [][NextOrder]_vars

(***************************************************************************)
(* A call on a codec shared with a caller of set_config.  Neither method   *)
(* takes a lock or copies self.__config: every line that mentions it loads *)
(* the attribute again, and set_config may run between two lines.  A call  *)
(* in progress is [op, arguments, old, swapped, seen, out]: seen is the    *)
(* value of self.__config at each line executed so far that reads it, in   *)
(* order; old is its value when the call began.                            *)
(***************************************************************************)
Pending == ""

\* generate_snowflake, line by line: seen[k] is self.__config at the k-th
\* line that reads it (419, 423, 426, 427, 432, 436, 437, [440,] 441, 443);
\* the outcome is Pending while a line not yet executed is needed
GenerateSnowflakeReading(seen, param1, sequence, date, param2) ==
    LET n == Len(seen)
        cfg(k) == seen[k].cfg
        k441 == IF param2 = None THEN 8 ELSE 9
        dt == SIntMinus(date, EpochOf(cfg(5)))
    IN
    IF n < 1 THEN GenFail(Pending, "")
    ELSE IF seen[1].state = "unset"
    THEN GenFail("AttributeError", "'Snowflake' object has no attribute '_Snowflake__config'")
    ELSE IF seen[1].state = "none"
    THEN GenFail("TypeError", "SnowflakeConfig must be provided.")
    ELSE IF n < 2 THEN GenFail(Pending, "")
    ELSE IF param2 = None /\ cfg(2).param2_length = None
    THEN GenFail("TypeError", "'>' not supported between instances of 'NoneType' and 'int'")
    ELSE IF param2 = None /\ cfg(2).param2_length[1] > 0
    THEN GenFail("TypeError", "Required param2 is not provided.")
    ELSE IF n < 3 THEN GenFail(Pending, "")
    ELSE IF ~InFieldRange(param1, cfg(3).param1_length)
    THEN GenFail("AssertionError", "Param1 must be between 0 and (10**(config.param1_length) - 1)")
    ELSE IF n < 4 THEN GenFail(Pending, "")
    ELSE IF ~InFieldRange(sequence, cfg(4).sequence_length)
    THEN GenFail("AssertionError", "Sequence must be between 0 and (10**(config.sequence_length) - 1)")
    ELSE IF n < 5 THEN GenFail(Pending, "")
    ELSE IF IsNegative(dt)
    THEN GenFail("ValueError", "Provided date is before the epoch.")
    ELSE IF n < 8 THEN GenFail(Pending, "")
    ELSE IF param2 # None /\ cfg(8).param2_length = None
    THEN GenFail("TypeError", "'NoneType' object cannot be interpreted as an integer")
    ELSE IF n < k441 + 1 THEN GenFail(Pending, "")
    ELSE LET b == BinaryString(cfg(k441 + 1).leading_bit,
                     ZFill(BinDec(dt.mag), cfg(6).timestamp_length),
                     ZFill(Bin(param1), cfg(7).param1_length),
                     IF param2 = None THEN None
                     ELSE Some(ZFill(Bin(param2[1]), cfg(8).param2_length[1])),
                     ZFill(Bin(sequence), cfg(k441).sequence_length))
         IN  IF Len(b) # 64
             THEN GenFail("AssertionError", "Binary string length is incorrect.")
             ELSE StrOfBinary(b)

\* parse_snowflake, line by line: seen[k] is self.__config at the k-th line
\* that reads it (477, 485, 486, 488, 489, [490, 491,] 493)
ParseSnowflakeReading(seen, snowflake) ==
    LET n == Len(seen)
        cfg(k) == seen[k].cfg
        b == BinarySnowflake(snowflake)
        start(k) == cfg(k).timestamp_length + cfg(k).param1_length
        branch == cfg(5).param2_length[1] > 0
        k493 == IF branch THEN 8 ELSE 6
    IN
    IF n < 1 THEN ParseFail(Pending, "")
    ELSE IF seen[1].state = "unset"
    THEN ParseFail("AttributeError", "'Snowflake' object has no attribute '_Snowflake__config'")
    ELSE IF seen[1].state = "none"
    THEN ParseFail("TypeError", "SnowflakeConfig must be provided.")
    ELSE IF ~LengthOk(snowflake)
    THEN ParseFail("AssertionError", "Snowflake must be a valid snowflake within 17-19 digits.")
    ELSE IF n < 4 THEN ParseFail(Pending, "")
    ELSE IF cfg(4).param2_length = None
    THEN ParseFail("TypeError", "unsupported operand type(s) for +: 'int' and 'NoneType'")
    ELSE IF n < 5 THEN ParseFail(Pending, "")
    ELSE IF cfg(5).param2_length = None
    THEN ParseFail("TypeError", "'>' not supported between instances of 'NoneType' and 'int'")
    ELSE IF branch /\ n < 6 THEN ParseFail(Pending, "")
    ELSE IF branch /\ cfg(6).param2_length = None
    THEN ParseFail("TypeError", "unsupported operand type(s) for +: 'int' and 'NoneType'")
    ELSE IF branch /\ n < 7 THEN ParseFail(Pending, "")
    ELSE IF branch /\ cfg(7).param2_length = None
    THEN ParseFail("TypeError", "unsupported operand type(s) for +: 'int' and 'NoneType'")
    ELSE IF n < k493 THEN ParseFail(Pending, "")
    ELSE Decode(Slice(b, 0, cfg(2).timestamp_length),
                Slice(b, cfg(3).timestamp_length, start(3)),
                IF branch
                THEN Some(Slice(b, start(6), start(6) + cfg(6).param2_length[1]))
                ELSE None,
                IF branch
                THEN SliceFrom(b, start(7) + cfg(7).param2_length[1])
                ELSE SliceFrom(b, start(4) + cfg(4).param2_length[1]),
                EpochOf(cfg(k493)))

\* the outcome of a call in progress after the lines executed so far
Outcome(c, seen) ==
    IF c.op = "generate_snowflake"
    THEN GenerateSnowflakeReading(seen, c.param1, c.sequence, c.date, c.param2)
    ELSE ParseSnowflakeReading(seen, c.snowflake)

\* the outcome of the whole call with one value of self.__config
OutcomeUnder(c, conf) ==
    IF c.op = "generate_snowflake"
    THEN GenerateSnowflake(conf, c.param1, c.sequence, c.date, c.param2)
    ELSE ParseSnowflake(conf, c.snowflake)

InProgress == call.op # "none" /\ call.out.exc = Pending /\ ~call.out.ok

Returned == call.op # "none" /\ ~InProgress

\* the configurations the callers of set_config hold
SwapConfigs == OrderConfigs

\* the field values of the shared calls: zero and the largest of the width
SwapValues(w) == {0, 2 ^ w - 1}

InitSwap ==
    /\ config \in {Active(c) : c \in SwapConfigs}
    /\ made = NoMade
    /\ gen = NoGen
    /\ par = NoPar
    /\ prev = NoGen
    /\ call = NoCall

\* a caller enters generate_snowflake
GenerateBegin ==
    /\ call.op = "none"
    /\ \E param1 \in SwapValues(5), sequence \in SwapValues(12),
          param2 \in {Some(v) : v \in SwapValues(5)},
          date \in DateValues(EpochOf(Layout), Layout.timestamp_length) :
           call' = [op |-> "generate_snowflake", param1 |-> param1,
                    sequence |-> sequence, param2 |-> param2, date |-> date,
                    old |-> config, swapped |-> FALSE, seen |-> <<>>,
                    out |-> GenFail(Pending, "")]
    /\ UNCHANGED <<config, made, gen, par, prev>>

\* a caller enters parse_snowflake
ParseBegin ==
    /\ call.op = "none"
    /\ \E s \in SampleStrings :
           call' = [op |-> "parse_snowflake", snowflake |-> s,
                    old |-> config, swapped |-> FALSE, seen |-> <<>>,
                    out |-> ParseFail(Pending, "")]
    /\ UNCHANGED <<config, made, gen, par, prev>>

\* the call executes its next line that reads self.__config, and whatever
\* follows it up to the next such line, a raise or the return
ReadConfig ==
    /\ InProgress
    /\ LET seen == Append(call.seen, config)
       IN  call' = [call EXCEPT !.seen = seen, !.out = Outcome(call, seen)]
    /\ UNCHANGED <<config, made, gen, par, prev>>

\* set_config(new) by another caller while the call is in progress
SwapConfig ==
    /\ InProgress
    /\ ~call.swapped
    /\ \E c \in SwapConfigs :
           /\ Active(c) # config
           /\ config' = Active(c)
    /\ call' = [call EXCEPT !.swapped = TRUE]
    /\ UNCHANGED <<made, gen, par, prev>>

\* the caller takes the outcome
TakeOutcome ==
    /\ Returned
    /\ call' = NoCall
    /\ UNCHANGED <<config, made, gen, par, prev>>

NextSwap ==
    \/ GenerateBegin
    \/ ParseBegin
    \/ ReadConfig
    \/ SwapConfig
    \/ TakeOutcome

SpecSwap == InitSwap /\ [][NextSwap]_vars

(***************************************************************************)
(* Vocabulary of the properties.                                           *)
(***************************************************************************)
Lead(cfg) == IF cfg.leading_bit THEN 1 ELSE 0

HasParam2(cfg) == Param2Width(cfg) > 0

\* 0 <= v < 2^w
Fits(v, w) == 0 <= v /\ v < 2 ^ w

\* 2^k as a Dec
Pow2Dec(k) == Int2(<<"1">> \o ZeroChars(k))

\* the offset of the date of a generate call from an epoch
Delta(g, epoch) == SIntMinus(g.date, epoch)

DeltaFits(d, tl) == ~IsNegative(d) /\ DecLess(d.mag, Pow2Dec(tl))

\* |1000 * ts - date|, in milliseconds
Apart(ts, date) ==
    LET p == DecMulAdd(ts, 1000, 0)
    IN  IF DecLess(p, date.mag) THEN DecSub(date.mag, p) ELSE DecSub(p, date.mag)

GenericCall == config.state = "set" /\ gen.op = "generate_snowflake"

\* param1, sequence and param2 (given exactly when the layout has one) are
\* within their configured bit ranges
FieldsInRange ==
    /\ Fits(gen.param1, config.cfg.param1_length)
    /\ Fits(gen.sequence, config.cfg.sequence_length)
    /\ IF HasParam2(config.cfg)
       THEN gen.param2 # None /\ Fits(gen.param2[1], Param2Width(config.cfg))
       ELSE gen.param2 = None

GenericDelta == Delta(gen, EpochOf(config.cfg))

GenericValid ==
    GenericCall /\ FieldsInRange /\ DeltaFits(GenericDelta, config.cfg.timestamp_length)

GenericParsed == par.op = "parse_snowflake" /\ par.fromGen

\* the three fixed formats
Providers == {"discord", "twitter", "instagram"}

GenerateOp(p) == "generate_" \o p \o "_snowflake"
ParseOp(p) == "parse_" \o p \o "_snowflake"

Fixed(p) ==
    CASE p = "discord"   -> [lead |-> 0, tl |-> 42, p1 |-> 5, p2 |-> 5, sl |-> 12]
      [] p = "twitter"   -> [lead |-> 1, tl |-> 41, p1 |-> 10, p2 |-> 0, sl |-> 12]
      [] p = "instagram" -> [lead |-> 0, tl |-> 41, p1 |-> 13, p2 |-> 0, sl |-> 10]

FixedFieldsInRange(p) ==
    /\ Fits(gen.param1, Fixed(p).p1)
    /\ Fits(gen.sequence, Fixed(p).sl)
    /\ gen.param2 # None => Fits(gen.param2[1], Fixed(p).p2)

(***************************************************************************)
(* C1  Generic round trip: under every configuration, for in-range fields  *)
(* and a date at or after the epoch whose offset fits timestamp_length     *)
(* bits, generate_snowflake returns a snowflake, and parse_snowflake of it *)
(* returns param1, param2 (if configured) and sequence as supplied and a   *)
(* timestamp within one second of the date.                                *)
(***************************************************************************)
C1_RoundTrip ==
    GenericValid =>
        /\ gen.out.ok
        /\ GenericParsed =>
              /\ par.out.ok
              /\ par.out.param1 = gen.param1
              /\ par.out.param2 = gen.param2
              /\ par.out.sequence = gen.sequence
              /\ ~DecLess(<<1, 0, 0, 0>>, Apart(par.out.ts, gen.date))

(***************************************************************************)
(* C2  Fixed-format round trip: for each provider, for in-range fields and *)
(* a date at or after the provider's epoch (the epoch instant included),   *)
(* the provider's generator returns a snowflake, and the provider's parser *)
(* returns the fields as supplied and the date to the second.              *)
(***************************************************************************)
C2_FixedRoundTrip ==
    \A p \in Providers :
        (/\ gen.op = GenerateOp(p)
         /\ FixedFieldsInRange(p)
         /\ ~IsNegative(Delta(gen, EpochValue(p)))) =>
            /\ gen.out.ok
            /\ (par.op = ParseOp(p) /\ par.fromGen) =>
                  /\ par.out.ok
                  /\ par.out.param1 = gen.param1
                  /\ par.out.param2 = gen.param2
                  /\ par.out.sequence = gen.sequence
                  /\ DecLess(Apart(par.out.ts, gen.date), <<1, 0, 0, 0>>)

(***************************************************************************)
(* C3  Encode bit layout: under every configuration, for in-range fields   *)
(* and 0 <= delta < 2^timestamp_length, generate_snowflake returns the     *)
(* decimal form of delta * 2^(p1+p2+s) + param1 * 2^(p2+s)                 *)
(* + param2 * 2^s + sequence (no param2 term without a param2 field).      *)
(***************************************************************************)
LayoutValue ==
    LET c == config.cfg
        s == c.sequence_length
        p2 == Param2Width(c)
        low == gen.param1 * 2 ^ (p2 + s)
                 + (IF gen.param2 = None THEN 0 ELSE gen.param2[1] * 2 ^ s)
                 + gen.sequence
    IN  DecMulAdd(GenericDelta.mag, 2 ^ (c.param1_length + p2 + s), low)

C3_EncodeLayout ==
    GenericValid => gen.out.ok /\ gen.out.value = Str(LayoutValue)

(***************************************************************************)
(* C4  Decode field boundaries: what parse_snowflake returns are the       *)
(* values of the slices [lead, lead+tl), the next p1 bits, the next p2     *)
(* bits (if any) and the last s bits of the 64-bit value, where lead is 1  *)
(* exactly when leading_bit is configured.                                 *)
(***************************************************************************)
SlicesOf(n, c) ==
    LET a == DecDivMod(n, 2 ^ c.sequence_length)
        b == DecDivMod(a.q, 2 ^ Param2Width(c))
        d == DecDivMod(b.q, 2 ^ c.param1_length)
        top == Pow2Dec(c.timestamp_length)
    IN  [ts |-> IF DecLess(d.q, top) THEN d.q ELSE DecSub(d.q, top),
         param1 |-> d.r,
         param2 |-> IF HasParam2(c) THEN Some(b.r) ELSE None,
         sequence |-> a.r]

C4_DecodeBoundaries ==
    (config.state = "set" /\ par.op = "parse_snowflake" /\ par.out.ok) =>
        LET x == SlicesOf(Int10(par.snowflake), config.cfg)
        IN  /\ par.out.ts = RoundDiv1000(DecAdd(x.ts, EpochOf(config.cfg)))
            /\ par.out.param1 = x.param1
            /\ par.out.param2 = x.param2
            /\ par.out.sequence = x.sequence

(***************************************************************************)
(* C5  Width invariant: with a valid epoch, SnowflakeConfig fails with the *)
(* width assertion exactly when leading bit (1 if set) + timestamp_length  *)
(* + param1_length + param2_length (0 if absent) + sequence_length is not  *)
(* 64, zero widths included; every configuration that exists, constructed  *)
(* or active in the codec, has the sum 64.                                 *)
(***************************************************************************)
ValidEpoch(e) == e.enum # "" \/ (~e.raw.neg /\ Len(e.raw.mag) <= 13)

Widths(r) ==
    (IF r.leading_bit THEN 1 ELSE 0) + r.timestamp_length + r.param1_length
        + (IF r.param2_length = None THEN 0 ELSE r.param2_length[1])
        + r.sequence_length

C5_WidthInvariant ==
    /\ (made.op = "SnowflakeConfig" /\ ValidEpoch(made.epoch)) =>
          /\ made.out.ok <=> Widths(made) = 64
          /\ ~made.out.ok => made.out.exc = "AssertionError"
          /\ made.out.ok =>
                made.out.cfg = Cfg(made.epoch, made.leading_bit, made.timestamp_length,
                                   made.param1_length, made.param2_length,
                                   made.sequence_length)
    /\ config.state = "set" => Widths(config.cfg) = 64

\* a configuration with a leading bit and a zero-width param1 was constructed
C5_Witness ==
    /\ made.op = "SnowflakeConfig" /\ made.out.ok
    /\ made.leading_bit /\ made.param1_length = 0

(***************************************************************************)
(* C6  Range rejection: for a date whose offset fits the timestamp field,  *)
(* whenever param1, sequence or (with a param2 field) param2 is negative   *)
(* or not below 2^width, generate_snowflake returns no snowflake and fails *)
(* with the assertion that names an offending field.                       *)
(***************************************************************************)
OffendingMessages ==
    (IF Fits(gen.param1, config.cfg.param1_length) THEN {}
     ELSE {"Param1 must be between 0 and (10**(config.param1_length) - 1)"})
    \cup (IF Fits(gen.sequence, config.cfg.sequence_length) THEN {}
          ELSE {"Sequence must be between 0 and (10**(config.sequence_length) - 1)"})
    \cup (IF HasParam2(config.cfg) /\ gen.param2 # None
             /\ ~Fits(gen.param2[1], Param2Width(config.cfg))
          THEN {"Param2 must be between 0 and (10**(config.param2_length) - 1)"}
          ELSE {})

C6_RangeRejection ==
    (/\ GenericCall
     /\ DeltaFits(GenericDelta, config.cfg.timestamp_length)
     /\ HasParam2(config.cfg) => gen.param2 # None
     /\ OffendingMessages # {}) =>
        /\ ~gen.out.ok
        /\ gen.out.exc = "AssertionError"
        /\ gen.out.msg \in OffendingMessages

(***************************************************************************)
(* C7  Epoch guard: under every configuration and with in-range fields,    *)
(* generate_snowflake fails with the before-the-epoch ValueError when the  *)
(* date is before the epoch, and returns a snowflake at the epoch instant. *)
(***************************************************************************)
C7_EpochGuard ==
    (GenericCall /\ FieldsInRange) =>
        /\ IsNegative(GenericDelta) =>
              /\ ~gen.out.ok
              /\ gen.out.exc = "ValueError"
              /\ gen.out.msg = "Provided date is before the epoch."
        /\ GenericDelta.mag = <<0>> => gen.out.ok

(***************************************************************************)
(* C8  Length guard: parse_snowflake (with a configuration active) and     *)
(* each provider parser fail with their length assertion, returning        *)
(* nothing, for a string of fewer than 17 or more than 19 digits; a string *)
(* of 17, 18 or 19 digits passes the guard, and its fields are returned by *)
(* the provider parsers and by parse_snowflake under a layout with a       *)
(* param2 field and a param1 field of positive width.                      *)
(***************************************************************************)
LengthMessage(op) ==
    CASE op = "parse_snowflake" ->
            "Snowflake must be a valid snowflake within 17-19 digits."
      [] op = "parse_discord_snowflake" ->
            "Snowflake must be a valid Discord snowflake within 17-19 digits."
      [] op = "parse_twitter_snowflake" ->
            "Snowflake must be a valid Twitter snowflake within 17-19 digits."
      [] op = "parse_instagram_snowflake" ->
            "Snowflake must be a valid Instagram snowflake within 17-19 digits."

C8_LengthGuard ==
    (par.op # "none" /\ (par.op = "parse_snowflake" => config.state = "set")) =>
        IF Len(par.snowflake) < 17 \/ Len(par.snowflake) > 19
        THEN /\ ~par.out.ok
             /\ par.out.exc = "AssertionError"
             /\ par.out.msg = LengthMessage(par.op)
             /\ par.out.arity = 0
        ELSE /\ par.out.exc # "AssertionError"
             /\ (\/ par.op # "parse_snowflake"
                 \/ HasParam2(config.cfg) /\ config.cfg.param1_length > 0)
                    => par.out.ok

\* parse_snowflake rejected a 20-digit snowflake that generate_snowflake returned
C8_Witness ==
    /\ config.state = "set" /\ par.op = "parse_snowflake" /\ par.fromGen
    /\ Len(par.snowflake) = 20
    /\ par.out.exc = "AssertionError"

(***************************************************************************)
(* C9  Decode result shape: for every accepted string, parse_snowflake     *)
(* returns three components when the configuration has no param2 field    *)
(* (param2_length 0 or absent) and four when param2_length > 0, and does   *)
(* not fail.                                                               *)
(***************************************************************************)
C9_ResultShape ==
    (/\ config.state = "set" /\ par.op = "parse_snowflake"
     /\ Len(par.snowflake) \in 17..19) =>
        /\ par.out.ok
        /\ par.out.arity = IF HasParam2(config.cfg) THEN 4 ELSE 3

(***************************************************************************)
(* C10  Timestamp ordering: two snowflakes returned by the same generator  *)
(* under one configuration, with offsets d1 < d2 that fit the timestamp    *)
(* field, are ordered as integers like their offsets, whatever the fields; *)
(* with equal offsets, different (param1, param2, sequence) give different *)
(* snowflakes.                                                             *)
(***************************************************************************)
TimestampBits(op) ==
    IF op = "generate_snowflake" THEN config.cfg.timestamp_length
    ELSE IF op = "generate_discord_snowflake" THEN 42 ELSE 41

EpochFor(op) ==
    CASE op = "generate_snowflake" -> EpochOf(config.cfg)
      [] op = "generate_discord_snowflake" -> EpochValue("discord")
      [] op = "generate_twitter_snowflake" -> EpochValue("twitter")
      [] op = "generate_instagram_snowflake" -> EpochValue("instagram")

TwoSnowflakes ==
    /\ prev.op # "none" /\ gen.op = prev.op
    /\ prev.out.ok /\ gen.out.ok
    /\ DeltaFits(Delta(prev, EpochFor(gen.op)), TimestampBits(gen.op))
    /\ DeltaFits(Delta(gen, EpochFor(gen.op)), TimestampBits(gen.op))

Triple(g) == <<g.param1, g.param2, g.sequence>>

C10_Ordering ==
    TwoSnowflakes =>
        LET d1 == Delta(prev, EpochFor(gen.op)).mag
            d2 == Delta(gen, EpochFor(gen.op)).mag
            s1 == Int10(prev.out.value)
            s2 == Int10(gen.out.value)
        IN  /\ DecLess(d1, d2) => DecLess(s1, s2)
            /\ DecLess(d2, d1) => DecLess(s2, s1)
            /\ (d1 = d2 /\ Triple(prev) # Triple(gen)) => s1 # s2

\* an earlier snowflake with all fields at their maximum, a later one with
\* all fields zero
C10_Witness ==
    /\ TwoSnowflakes
    /\ gen.op = "generate_snowflake"
    /\ DecLess(Delta(prev, EpochFor(gen.op)).mag, Delta(gen, EpochFor(gen.op)).mag)
    /\ Triple(prev) = <<31, Some(31), 4095>>
    /\ Triple(gen) = <<0, Some(0), 0>>

(***************************************************************************)
(* C11  Timestamp overflow, as stated: with in-range fields and an offset  *)
(* of at least 2^timestamp_length, generate_snowflake raises nothing and   *)
(* returns a snowflake below 2^64.                                         *)
(***************************************************************************)
Overflowing ==
    /\ GenericCall /\ FieldsInRange
    /\ ~IsNegative(GenericDelta)
    /\ ~DeltaFits(GenericDelta, config.cfg.timestamp_length)

C11_OverflowTruncates ==
    Overflowing =>
        /\ gen.out.ok
        /\ DecLess(Int10(gen.out.value), Pow2Dec(64))

(***************************************************************************)
(* C11  Timestamp overflow, as the code has it: with in-range fields and   *)
(* an offset of at least 2^timestamp_length, generate_snowflake returns no *)
(* snowflake; under a layout whose param2_length is an integer it fails    *)
(* with the AssertionError "Binary string length is incorrect.".           *)
(***************************************************************************)
C11_OverflowRejected ==
    Overflowing =>
        /\ ~gen.out.ok
        /\ gen.out.value = <<>>
        /\ config.cfg.param2_length # None =>
              /\ gen.out.exc = "AssertionError"
              /\ gen.out.msg = "Binary string length is incorrect."

\* a layout with an integer epoch and a param2 field, fields in range, an
\* offset of 2^timestamp_length: rejected by the length assertion
C11_Witness ==
    /\ Overflowing
    /\ config.cfg.epoch.enum = "" /\ HasParam2(config.cfg)
    /\ GenericDelta.mag = Pow2Dec(config.cfg.timestamp_length)
    /\ gen.out.exc = "AssertionError"
    /\ gen.out.msg = "Binary string length is incorrect."

(***************************************************************************)
(* C12  Configuration required: while the codec has no active              *)
(* configuration (built with config=None and never configured, or after    *)
(* set_config(None)), generate_snowflake and parse_snowflake fail with the *)
(* TypeError "SnowflakeConfig must be provided." and return nothing.       *)
(***************************************************************************)
C12_ConfigurationRequired ==
    config.state # "set" =>
        /\ gen.op = "generate_snowflake" =>
              /\ ~gen.out.ok
              /\ gen.out.value = <<>>
              /\ gen.out.exc = "TypeError"
              /\ gen.out.msg = "SnowflakeConfig must be provided."
        /\ par.op = "parse_snowflake" =>
              /\ ~par.out.ok
              /\ par.out.arity = 0
              /\ par.out.exc = "TypeError"
              /\ par.out.msg = "SnowflakeConfig must be provided."

(***************************************************************************)
(* C13  Atomic configuration swap: a generate_snowflake or parse_snowflake *)
(* call during which set_config(new) ran has exactly the outcome the same  *)
(* call has with the old configuration alone or with the new one alone.    *)
(***************************************************************************)
C13_AtomicSwap ==
    (Returned /\ call.swapped) =>
        call.out \in {OutcomeUnder(call, call.old), OutcomeUnder(call, config)}

(***************************************************************************)
(* C14  Wrappers are instances of the generic codec: a provider's          *)
(* generator returns the same string, or fails on the same inputs, as      *)
(* generate_snowflake configured with that provider's layout and epoch,    *)
(* and its parser fails or returns the same fields as parse_snowflake so   *)
(* configured ("no param2" being a param2_length that is absent or 0).     *)
(***************************************************************************)
ProviderConfigs(p) ==
    {Cfg(EpochEnum(p), Fixed(p).lead = 1, Fixed(p).tl, Fixed(p).p1, p2, Fixed(p).sl) :
        p2 \in IF Fixed(p).p2 > 0 THEN {Some(Fixed(p).p2)} ELSE {None, Some(0)}}

SameSnowflake(a, b) == a.ok = b.ok /\ a.value = b.value

SameFields(a, b) ==
    /\ a.ok = b.ok
    /\ a.arity = b.arity
    /\ a.ok => /\ a.ts = b.ts /\ a.param1 = b.param1
               /\ a.param2 = b.param2 /\ a.sequence = b.sequence

C14_WrappersAreInstances ==
    \A p \in Providers :
        /\ gen.op = GenerateOp(p) =>
              \E c \in ProviderConfigs(p) :
                  SameSnowflake(gen.out,
                      GenerateSnowflake(Active(c), gen.param1, gen.sequence,
                                        gen.date, gen.param2))
        /\ par.op = ParseOp(p) =>
              \E c \in ProviderConfigs(p) :
                  SameFields(par.out, ParseSnowflake(Active(c), par.snowflake))

====
